---- MODULE Spec2Model ----
(***************************************************************************)
(* The panic subsystem of STX: the panic hook registry, the panic signal   *)
(* entry point and the default panic handler (stx::panic_default), which   *)
(* reports a panic on stderr under a mutex.                                *)
(*                                                                         *)
(* The sink (stderr) is a sequence of records [th, ch, fn]: `ch` is one    *)
(* unit written by one call of the primitive `fn` by thread `th` (a        *)
(* literal of the source, one character of the message or payload, or one  *)
(* character of a formatted number). Every stdio call is one atomic step.  *)
(***************************************************************************)
EXTENDS Integers, Sequences, FiniteSets, TLC

(***************************************************************************)
(* Bounds of the model.                                                    *)
(***************************************************************************)
NumThreads == 2
MaxLen == 2
MaxFrames == 2

Threads == 1..NumThreads
NoThread == 0

(***************************************************************************)
(* Program constants.                                                      *)
(***************************************************************************)
kFormatBufferSize == 256

(***************************************************************************)
(* 32-bit values are kept at full width as two 16-bit limbs <<hi, lo>>.    *)
(***************************************************************************)
Limb == 2^16
HalfLimb == 2^15

Zero32 == <<0, 0>>
IsZero32(v) == v[1] = 0 /\ v[2] = 0

DigitChar(d) ==
  CASE d = 0 -> "0" [] d = 1 -> "1" [] d = 2 -> "2" [] d = 3 -> "3"
    [] d = 4 -> "4" [] d = 5 -> "5" [] d = 6 -> "6" [] d = 7 -> "7"
    [] d = 8 -> "8" [] d = 9 -> "9"

\* v \div 10 and v % 10 of a two-limb value, by long division
DivTen(v) ==
  LET r1 == v[1] % 10
      lo == r1 * Limb + v[2]
  IN  <<v[1] \div 10, lo \div 10>>
ModTen(v) == ((v[1] % 10) * Limb + v[2]) % 10

RECURSIVE UnsignedDigits(_)
\* the decimal representation of the unsigned value v
UnsignedDigits(v) ==
  IF v[1] = 0 /\ v[2] < 10 THEN <<DigitChar(v[2])>>
  ELSE Append(UnsignedDigits(DivTen(v)), DigitChar(ModTen(v)))

\* 2^32 - v for v # 0: the magnitude of v read as a negative two's complement int
Negate32(v) ==
  IF v[2] = 0 THEN <<Limb - v[1], 0>> ELSE <<Limb - 1 - v[1], Limb - v[2]>>

RECURSIVE NatDigits(_)
\* "%zu" of a size_t n
NatDigits(n) ==
  IF n < 10 THEN <<DigitChar(n)>>
  ELSE Append(NatDigits(n \div 10), DigitChar(n % 10))

\* snprintf never stores more than size - 1 characters
Truncate(s, size) == IF Len(s) > size - 1 THEN SubSeq(s, 1, size - 1) ELSE s


\* snprintf(buf, size, "%d", v) of a 32-bit unsigned v. With a 32-bit int a value
\* of 2^31 or more is not representable: the argument is read back as a two's
\* complement int. A build whose int has 64 bits prints the value itself.
FormatD(v, int_bits) ==
  IF int_bits > 32 \/ v[1] < HalfLimb THEN UnsignedDigits(v)
  ELSE <<"-">> \o UnsignedDigits(Negate32(v))

(***************************************************************************)
(* Panic hooks. panic_default is the handler modelled step by step below;  *)
(* panic_halt loops forever, panic_abort executes abort, panic_handler is  *)
(* a user-defined handler that logs to a file of its own and returns.      *)
(***************************************************************************)
PanicHooks == {"panic_default", "panic_halt", "panic_abort", "panic_handler"}

\* the first program point of each hook
HookEntry(h) ==
  CASE h = "panic_default" -> "thread_id_hash"
    [] h = "panic_halt"    -> "halt"
    [] h = "panic_abort"   -> "abort"
    [] h = "panic_handler" -> "user_handler"

\* std::hash<std::thread::id>: a fixed value per thread; collisions happen
kThreadIdHash(t) == 40 + 31 * (t % 2)

(***************************************************************************)
(* Inputs.                                                                 *)
(***************************************************************************)
Chars == {"x", "'"}

RECURSIVE SeqsUpTo(_, _)
SeqsUpTo(S, n) ==
  IF n = 0 THEN {<<>>}
  ELSE LET shorter == SeqsUpTo(S, n - 1)
       IN  shorter \cup {Append(s, c) : s \in {x \in shorter : Len(x) = n - 1}, c \in S}

\* line and column values: 0, 7, 2^31 - 1, 2^31, 2^32 - 1
LocationValues ==
  {Zero32, <<0, 7>>, <<HalfLimb - 1, Limb - 1>>, <<HalfLimb, 0>>, <<Limb - 1, Limb - 1>>}

SourceLocation(l, c) ==
  [function_name |-> "main", file_name |-> "src/main.cc", line |-> l, column |-> c]

None == <<>>
Frame(sym, ip, sp) == [symbol |-> sym, ip |-> ip, sp |-> sp]
\* a frame field is None or Some(value); a symbol's value is its raw characters
Some(x) == <<x>>

ResolvedFrame == Frame(Some(<<"f">>), Some("0x1"), Some("0x2"))
UnresolvedFrame == Frame(None, None, None)
SampleFrames == {ResolvedFrame, UnresolvedFrame}

\* every combination of a present or absent symbol, ip and sp; a present symbol
\* is empty or not
AllFrames ==
  {Frame(sym, ip, sp) : sym \in {None, Some(<<>>), Some(<<"f">>)},
                        ip \in {None, Some("0x1")}, sp \in {None, Some("0x2")}}

\* the inputs of the concurrent specification: few, so that threads can be many
PanicInputs ==
  { [info |-> <<"x">>, payload |-> <<>>, location |-> SourceLocation(<<0, 7>>, Zero32)],
    [info |-> <<>>, payload |-> <<"'", "x">>, location |-> SourceLocation(Zero32, <<0, 7>>)] }

\* the inputs of the formatting specification: every message and payload at one
\* location, and one message at every line and column
FormatInputs ==
  { [info |-> m, payload |-> p, location |-> SourceLocation(<<0, 7>>, Zero32)] :
      m \in SeqsUpTo(Chars, MaxLen), p \in SeqsUpTo(Chars, MaxLen) }
  \cup
  { [info |-> <<"x">>, payload |-> <<>>, location |-> SourceLocation(l, c)] :
      l \in LocationValues, c \in LocationValues }

NoInput == [info |-> <<>>, payload |-> <<>>, location |-> SourceLocation(Zero32, Zero32)]

\* the call stacks of the concurrent specification: no frame, or MaxFrames frames
Stacks ==
  {<<>>, [i \in 1..MaxFrames |-> IF i % 2 = 1 THEN ResolvedFrame ELSE UnresolvedFrame]}

(***************************************************************************)
(* State.                                                                  *)
(***************************************************************************)
VARIABLES
  build,           \* the build's switches and the width of int
  hook,            \* registry: the active panic hook
  locked,          \* registry: an install has succeeded
  last_install,    \* registry: the last install call and what it signalled
  pc,              \* pc[t]: the program point of thread t
  args,            \* args[t]: the arguments of t's panic call
  stack,           \* stack[t]: the frames of t's call stack at the panic call
  resolved,        \* resolved[t]: the hook the entry point invoked for t
  invoked,         \* invoked[t]: the hook invocations made by t's entry point
  thread_id_hash,  \* thread_id_hash[t]: local of panic_default
  log_buffer,      \* log_buffer[t]: local of panic_default
  idx,             \* idx[t]: position of the running for loop
  cancel_at,       \* cancel_at[t]: the invocation at which a counting visitor returns false
  depth,           \* depth[t]: the frames the capturer has delivered to the visitor
  visited,         \* visited[t]: the visitor's invocations, as (index, frame), in order
  frames,          \* frames[t]: local of panic_default, the result of trace
  stderr_lock,     \* the thread that holds the mutex, or NoThread
  sink,            \* stderr: what was written, and by whom
  flushed,         \* how much of the sink has been flushed
  terminated       \* the process has been terminated

vars == <<build, hook, locked, last_install, pc, args, stack, cancel_at, resolved,
          invoked, thread_id_hash, log_buffer, idx, depth, visited, frames,
          stderr_lock, sink, flushed, terminated>>

registry == <<hook, locked, last_install>>
locals == <<thread_id_hash, log_buffer, idx, depth, visited, frames>>
stream == <<sink, flushed>>

\* a plain option: the user's choice whatever the other switches say
PanicBacktraceOption(b) == b.panic_backtrace_option

\* cmake_dependent_option: the switch is the user's choice when the backtrace
\* library is enabled and the handler is not overridden, and OFF otherwise
STX_ENABLE_PANIC_BACKTRACE(b) ==
  IF b.STX_ENABLE_BACKTRACE /\ ~b.STX_OVERRIDE_PANIC_HANDLER
  THEN b.panic_backtrace_option ELSE FALSE

Builds ==
  [STX_ENABLE_BACKTRACE : BOOLEAN, STX_OVERRIDE_PANIC_HANDLER : BOOLEAN,
   panic_backtrace_option : BOOLEAN, int_bits : {32, 64}]

\* the builds without the backtrace library
FormatBuilds == {b \in Builds : ~b.STX_ENABLE_BACKTRACE /\ ~b.STX_OVERRIDE_PANIC_HANDLER
                                /\ ~b.panic_backtrace_option}

InitWith(B) ==
  /\ build \in B
  /\ hook = "panic_default"
  /\ locked = FALSE
  /\ last_install = [hook |-> "none", status |-> "none"]
  /\ pc = [t \in Threads |-> "run"]
  /\ args = [t \in Threads |-> NoInput]
  /\ stack = [t \in Threads |-> <<>>]
  /\ resolved = [t \in Threads |-> "none"]
  /\ invoked = [t \in Threads |-> <<>>]
  /\ thread_id_hash = [t \in Threads |-> 0]
  /\ log_buffer = [t \in Threads |-> <<>>]
  /\ idx = [t \in Threads |-> 0]
  /\ cancel_at = [t \in Threads |-> 0]
  /\ depth = [t \in Threads |-> 0]
  /\ visited = [t \in Threads |-> <<>>]
  /\ frames = [t \in Threads |-> 0]
  /\ stderr_lock = NoThread
  /\ sink = <<>>
  /\ flushed = 0
  /\ terminated = FALSE


(***************************************************************************)
(* Panic hook registry.                                                    *)
(***************************************************************************)
\* a current() that ignores the installed hook
CurrentDefault == "panic_default"

\* current(): the active hook
Current == hook

\* an install without the guard: every call replaces the active hook
InstallOverwrites(h) ==
  /\ ~terminated
  /\ hook' = h
  /\ locked' = TRUE
  /\ last_install' = [hook |-> h, status |-> "ok"]
  /\ UNCHANGED <<build, pc, args, stack, cancel_at, resolved, invoked, locals, stderr_lock,
                 stream, terminated>>

\* install(h): the first install succeeds and locks the registry; a later one
\* signals a configuration error and changes nothing else
Install(h) ==
  /\ ~terminated
  /\ IF ~locked
     THEN /\ hook' = h
          /\ locked' = TRUE
          /\ last_install' = [hook |-> h, status |-> "ok"]
     ELSE /\ last_install' = [hook |-> h, status |-> "configuration_error"]
          /\ UNCHANGED <<hook, locked>>
  /\ UNCHANGED <<build, pc, args, stack, cancel_at, resolved, invoked, locals, stderr_lock,
                 stream, terminated>>

(***************************************************************************)
(* Panic signal entry point.                                               *)
(***************************************************************************)
\* a call site calls panic(info, payload, location)
Panic(t, in, st) ==
  /\ ~terminated
  /\ pc[t] = "run"
  /\ args' = [args EXCEPT ![t] = in]
  /\ stack' = [stack EXCEPT ![t] = st]
  /\ pc' = [pc EXCEPT ![t] = "begin_panic"]
  /\ UNCHANGED <<build, registry, cancel_at, resolved, invoked, locals, stderr_lock,
                 stream, terminated>>

\* an entry point that calls the default handler whatever is installed
ResolveDefault == "panic_default"

\* the hook the entry point calls
ResolveHook == Current

\* the entry point resolves the active hook and calls it with the arguments
BeginPanic(t) ==
  /\ ~terminated
  /\ pc[t] = "begin_panic"
  /\ resolved' = [resolved EXCEPT ![t] = ResolveHook]
  /\ invoked' = [invoked EXCEPT ![t] = Append(@, [hook |-> ResolveHook, args |-> args[t]])]
  /\ pc' = [pc EXCEPT ![t] = HookEntry(ResolveHook)]
  /\ UNCHANGED <<build, registry, args, stack, cancel_at, locals, stderr_lock, stream, terminated>>

\* an entry point without the safety net: control goes back to the call site
EndPanicReturns(t) ==
  /\ ~terminated
  /\ pc[t] = "hook_returned"
  /\ pc' = [pc EXCEPT ![t] = "run"]
  /\ UNCHANGED <<build, registry, args, stack, cancel_at, resolved, invoked, locals, stderr_lock,
                 stream, terminated>>

\* the hook returned: the entry point terminates the process
EndPanic(t) ==
  /\ ~terminated
  /\ pc[t] = "hook_returned"
  /\ terminated' = TRUE
  /\ pc' = [pc EXCEPT ![t] = "aborted"]
  /\ UNCHANGED <<build, registry, args, stack, cancel_at, resolved, invoked, locals, stderr_lock,
                 stream>>

(***************************************************************************)
(* The other hooks.                                                        *)
(***************************************************************************)
\* panic_halt: an infinite loop
PanicHalt(t) ==
  /\ ~terminated
  /\ pc[t] = "halt"
  /\ UNCHANGED vars

\* panic_abort: the abort instruction
PanicAbort(t) ==
  /\ ~terminated
  /\ pc[t] = "abort"
  /\ terminated' = TRUE
  /\ pc' = [pc EXCEPT ![t] = "aborted"]
  /\ UNCHANGED <<build, registry, args, stack, cancel_at, resolved, invoked, locals, stderr_lock,
                 stream>>

\* a user-defined panic_handler: logs to its own file and returns
PanicHandler(t) ==
  /\ ~terminated
  /\ pc[t] = "user_handler"
  /\ pc' = [pc EXCEPT ![t] = "hook_returned"]
  /\ UNCHANGED <<build, registry, args, stack, cancel_at, resolved, invoked, locals, stderr_lock,
                 stream, terminated>>

(***************************************************************************)
(* stx::panic_default.                                                     *)
(***************************************************************************)
\* thread t moves from program point `from` to `to`
Goto(t, from, to) ==
  /\ ~terminated
  /\ pc[t] = from
  /\ pc' = [pc EXCEPT ![t] = to]
  /\ UNCHANGED <<build, registry, args, stack, cancel_at, resolved, invoked, terminated>>

\* one call of the output primitive `fn` by thread t appends `units` to stderr
Put(t, fn, units) ==
  /\ sink' = sink \o [i \in 1..Len(units) |-> [th |-> t, ch |-> units[i], fn |-> fn]]
  /\ UNCHANGED flushed

\* fputs(literal, stderr)
Fputs(t, from, literal, to) ==
  /\ Goto(t, from, to)
  /\ Put(t, "fputs", <<literal>>)
  /\ UNCHANGED <<locals, stderr_lock>>

\* auto thread_id_hash = kThreadIdHash(std::this_thread::get_id());
ThreadIdHash(t) ==
  /\ Goto(t, "thread_id_hash", "lock")
  /\ thread_id_hash' = [thread_id_hash EXCEPT ![t] = kThreadIdHash(t)]
  /\ UNCHANGED <<log_buffer, idx, depth, visited, frames, stderr_lock, stream>>

\* a lock that never waits
MutexFreeAlways == TRUE

\* std::mutex::lock returns when no thread owns the mutex
MutexFree == stderr_lock = NoThread

\* a try_lock whose result is not looked at
TryLock(t) ==
  /\ Goto(t, "lock", "put_thread")
  /\ stderr_lock' = IF MutexFree THEN t ELSE stderr_lock
  /\ UNCHANGED <<locals, stream>>

\* stderr_lock.lock();
Lock(t) ==
  /\ MutexFree
  /\ Goto(t, "lock", "put_thread")
  /\ stderr_lock' = t
  /\ UNCHANGED <<locals, stream>>

\* a leading newline written only as a separator after earlier output
PutThreadSeparated(t) ==
  Fputs(t, "put_thread",
        IF sink = <<>> THEN "thread with hash: '" ELSE "\nthread with hash: '",
        "format_hash")

PutThread(t) == Fputs(t, "put_thread", "\nthread with hash: '", "format_hash")

\* std::snprintf(log_buffer, kFormatBufferSize, "%zu", thread_id_hash);
FormatHash(t) ==
  /\ Goto(t, "format_hash", "put_hash")
  /\ log_buffer' = [log_buffer EXCEPT
                      ![t] = Truncate(NatDigits(thread_id_hash[t]), kFormatBufferSize)]
  /\ UNCHANGED <<thread_id_hash, idx, depth, visited, frames, stderr_lock, stream>>

\* std::fputs(log_buffer, stderr);
PutBuffer(t, from, to) ==
  /\ Goto(t, from, to)
  /\ Put(t, "fputs", log_buffer[t])
  /\ UNCHANGED <<locals, stderr_lock>>

PutHash(t) == PutBuffer(t, "put_hash", "put_panicked")

\* std::fputs("' panicked with: '", stderr); and the for loop starts
PutPanicked(t) ==
  /\ Goto(t, "put_panicked", "info")
  /\ Put(t, "fputs", <<"' panicked with: '">>)
  /\ idx' = [idx EXCEPT ![t] = 1]
  /\ UNCHANGED <<thread_id_hash, log_buffer, depth, visited, frames, stderr_lock>>

\* the delimiter written whatever the payload
HasPayloadAlways(payload) == TRUE

\* !payload.data().empty()
HasPayload(payload) == payload # <<>>

\* for (char c : info) std::fputc(c, stderr); then if (!payload.data().empty())
PutInfo(t) ==
  /\ IF idx[t] <= Len(args[t].info)
     THEN /\ Goto(t, "info", "info")
          /\ Put(t, "fputc", <<args[t].info[idx[t]]>>)
          /\ idx' = [idx EXCEPT ![t] = @ + 1]
     ELSE /\ Goto(t, "info",
                  IF HasPayload(args[t].payload) THEN "put_colon" ELSE "put_quote")
          /\ UNCHANGED <<idx, stream>>
  /\ UNCHANGED <<thread_id_hash, log_buffer, depth, visited, frames, stderr_lock>>

\* std::fputc(':', stderr);
PutColon(t) ==
  /\ Goto(t, "put_colon", "put_space")
  /\ Put(t, "fputc", <<":">>)
  /\ UNCHANGED <<locals, stderr_lock>>

\* std::fputc(' ', stderr); and the for loop starts
PutSpace(t) ==
  /\ Goto(t, "put_space", "payload")
  /\ Put(t, "fputc", <<" ">>)
  /\ idx' = [idx EXCEPT ![t] = 1]
  /\ UNCHANGED <<thread_id_hash, log_buffer, depth, visited, frames, stderr_lock>>

\* for (auto c : payload.data()) std::fputc(c, stderr);
PutPayload(t) ==
  /\ IF idx[t] <= Len(args[t].payload)
     THEN /\ Goto(t, "payload", "payload")
          /\ Put(t, "fputc", <<args[t].payload[idx[t]]>>)
          /\ idx' = [idx EXCEPT ![t] = @ + 1]
     ELSE /\ Goto(t, "payload", "put_quote")
          /\ UNCHANGED <<idx, stream>>
  /\ UNCHANGED <<thread_id_hash, log_buffer, depth, visited, frames, stderr_lock>>

\* std::fputc('\'', stderr);
PutQuote(t) ==
  /\ Goto(t, "put_quote", "put_at_function")
  /\ Put(t, "fputc", <<"'">>)
  /\ UNCHANGED <<locals, stderr_lock>>

PutAtFunction(t) == Fputs(t, "put_at_function", " at function: '", "put_function_name")

\* the file name written in the place of the function name
PutFileNameTwice(t) ==
  Fputs(t, "put_function_name", args[t].location.file_name, "put_bracket")

\* std::fputs(location.function_name(), stderr);
PutFunctionName(t) ==
  Fputs(t, "put_function_name", args[t].location.function_name, "put_bracket")

PutBracket(t) == Fputs(t, "put_bracket", "' [", "put_file_name")

PutFileName(t) == Fputs(t, "put_file_name", args[t].location.file_name, "put_line_colon")

\* std::fputc(':', stderr);
PutLineColon(t) ==
  /\ Goto(t, "put_line_colon", "line")
  /\ Put(t, "fputc", <<":">>)
  /\ UNCHANGED <<locals, stderr_lock>>

\* location.line() != 0
LineKnown(location) == ~IsZero32(location.line)

\* if (location.line() != 0) snprintf(.., "%d", location.line()) else fputs("unknown")
Line(t) ==
  /\ IF LineKnown(args[t].location)
     THEN /\ Goto(t, "line", "put_line")
          /\ log_buffer' = [log_buffer EXCEPT
               ![t] = Truncate(FormatD(args[t].location.line, build.int_bits),
                               kFormatBufferSize)]
          /\ UNCHANGED stream
     ELSE /\ Goto(t, "line", "put_column_colon")
          /\ Put(t, "fputs", <<"unknown">>)
          /\ UNCHANGED log_buffer
  /\ UNCHANGED <<thread_id_hash, idx, depth, visited, frames, stderr_lock>>

PutLine(t) == PutBuffer(t, "put_line", "put_column_colon")

\* std::fputc(':', stderr);
PutColumnColon(t) ==
  /\ Goto(t, "put_column_colon", "column")
  /\ Put(t, "fputc", <<":">>)
  /\ UNCHANGED <<locals, stderr_lock>>

\* the column test looking at the line
ColumnKnownByLine(location) == ~IsZero32(location.line)

\* location.column() != 0
ColumnKnown(location) == ~IsZero32(location.column)

\* if (location.column() != 0) snprintf(.., "%d", location.column()) else fputs("unknown")
Column(t) ==
  /\ IF ColumnKnown(args[t].location)
     THEN /\ Goto(t, "column", "put_column")
          /\ log_buffer' = [log_buffer EXCEPT
               ![t] = Truncate(FormatD(args[t].location.column, build.int_bits),
                               kFormatBufferSize)]
          /\ UNCHANGED stream
     ELSE /\ Goto(t, "column", "put_end")
          /\ Put(t, "fputs", <<"unknown">>)
          /\ UNCHANGED log_buffer
  /\ UNCHANGED <<thread_id_hash, idx, depth, visited, frames, stderr_lock>>

PutColumn(t) == PutBuffer(t, "put_column", "put_end")

PutEnd(t) == Fputs(t, "put_end", "]\n", "flush")

\* a handler without the fflush
FlushSkipped(t) ==
  /\ Goto(t, "flush",
          IF STX_ENABLE_PANIC_BACKTRACE(build) THEN "put_backtrace" ELSE "unlock")
  /\ UNCHANGED <<stream, locals, stderr_lock>>

\* a handler whose backtrace section is compiled in whatever the build says
FlushThenBacktrace(t) ==
  /\ Goto(t, "flush", "put_backtrace")
  /\ flushed' = Len(sink)
  /\ UNCHANGED <<sink, locals, stderr_lock>>

\* the unlock placed right after the flush, before the backtrace section
FlushAndUnlock(t) ==
  /\ Goto(t, "flush",
          IF STX_ENABLE_PANIC_BACKTRACE(build) THEN "put_backtrace" ELSE "unlock")
  /\ flushed' = Len(sink)
  /\ stderr_lock' = NoThread
  /\ UNCHANGED <<sink, locals>>

\* std::fflush(stderr); what follows is compiled in with STX_ENABLE_PANIC_BACKTRACE
Flush(t) ==
  /\ Goto(t, "flush",
          IF STX_ENABLE_PANIC_BACKTRACE(build) THEN "put_backtrace" ELSE "unlock")
  /\ flushed' = Len(sink)
  /\ UNCHANGED <<sink, locals, stderr_lock>>

\* a handler that returns without the unlock
ReturnLocked(t) ==
  /\ Goto(t, "unlock", "hook_returned")
  /\ UNCHANGED <<locals, stream, stderr_lock>>

\* stderr_lock.unlock(); and the handler returns
Unlock(t) ==
  /\ Goto(t, "unlock", "hook_returned")
  /\ stderr_lock' = NoThread
  /\ UNCHANGED <<locals, stream>>

(***************************************************************************)
(* The backtrace section of panic_default (STX_ENABLE_PANIC_BACKTRACE).    *)
(* backtrace::trace(callback, skip) delivers the frames of the calling     *)
(* thread's stack to the callback, innermost first, and stops when the     *)
(* callback returns false or the frames are exhausted.                     *)
(***************************************************************************)
PutBacktrace(t) ==
  Fputs(t, "put_backtrace",
        "\nBacktrace:\nip: Instruction Pointer,  sp: Stack Pointer\n\n", "trace")

\* the visitor the capturer was given: the lambda of panic_default, or the
\* counting visitor of a direct caller
VisitorEntry(t) == IF resolved[t] = "panic_default" THEN "frame_index" ELSE "visit"

\* the capturer: the next frame goes to the visitor, or the walk is over
Trace(t) ==
  /\ IF depth[t] < Len(stack[t])
     THEN /\ Goto(t, "trace", VisitorEntry(t))
          /\ depth' = [depth EXCEPT ![t] = @ + 1]
          /\ visited' = [visited EXCEPT
                           ![t] = Append(@, [index |-> depth[t],
                                             frame |-> stack[t][depth[t] + 1]])]
     ELSE /\ Goto(t, "trace", "trace_return")
          /\ UNCHANGED <<depth, visited>>
  /\ UNCHANGED <<thread_id_hash, log_buffer, idx, frames, stderr_lock, stream>>

\* the frame the visitor is looking at, and the index it is given
CurrentFrame(t) == stack[t][depth[t]]
FrameIndex(t) == depth[t] - 1

\* what print_none writes for an absent field
UnresolvedMarker == "unresolved"

\* std::fprintf(stderr, "#%d\t\t", i);
PutFrameIndex(t) ==
  /\ Goto(t, "frame_index", "frame_symbol")
  /\ Put(t, "fprintf", <<"#">> \o NatDigits(FrameIndex(t)) \o <<"\t\t">>)
  /\ idx' = [idx EXCEPT ![t] = 1]
  /\ UNCHANGED <<thread_id_hash, log_buffer, depth, visited, frames, stderr_lock>>

\* a visitor that prints the marker for an empty symbol as for an absent one
PutFrameSymbolEmptyAsAbsent(t) ==
  /\ pc[t] = "frame_symbol"
  /\ IF CurrentFrame(t).symbol = None \/ CurrentFrame(t).symbol = Some(<<>>)
     THEN /\ Goto(t, "frame_symbol", "put_ip_label")
          /\ Put(t, "print_none", <<UnresolvedMarker>>)
          /\ UNCHANGED idx
     ELSE IF idx[t] <= Len(CurrentFrame(t).symbol[1])
     THEN /\ Goto(t, "frame_symbol", "frame_symbol")
          /\ Put(t, "fputc", <<CurrentFrame(t).symbol[1][idx[t]]>>)
          /\ idx' = [idx EXCEPT ![t] = @ + 1]
     ELSE /\ Goto(t, "frame_symbol", "put_ip_label")
          /\ UNCHANGED <<idx, stream>>
  /\ UNCHANGED <<thread_id_hash, log_buffer, depth, visited, frames, stderr_lock>>

\* a visitor that gives up the rest of the line when the symbol is absent
PutFrameSymbolOrSkip(t) ==
  /\ pc[t] = "frame_symbol"
  /\ IF CurrentFrame(t).symbol = None
     THEN /\ Goto(t, "frame_symbol", "put_frame_end")
          /\ Put(t, "print_none", <<UnresolvedMarker>>)
          /\ UNCHANGED idx
     ELSE IF idx[t] <= Len(CurrentFrame(t).symbol[1])
     THEN /\ Goto(t, "frame_symbol", "frame_symbol")
          /\ Put(t, "fputc", <<CurrentFrame(t).symbol[1][idx[t]]>>)
          /\ idx' = [idx EXCEPT ![t] = @ + 1]
     ELSE /\ Goto(t, "frame_symbol", "put_ip_label")
          /\ UNCHANGED <<idx, stream>>
  /\ UNCHANGED <<thread_id_hash, log_buffer, depth, visited, frames, stderr_lock>>

\* frame.symbol.as_ref().match(for (char c : sym.get().raw()) fputc(c), print_none);
PutFrameSymbol(t) ==
  /\ pc[t] = "frame_symbol"
  /\ IF CurrentFrame(t).symbol = None
     THEN /\ Goto(t, "frame_symbol", "put_ip_label")
          /\ Put(t, "print_none", <<UnresolvedMarker>>)
          /\ UNCHANGED idx
     ELSE IF idx[t] <= Len(CurrentFrame(t).symbol[1])
     THEN /\ Goto(t, "frame_symbol", "frame_symbol")
          /\ Put(t, "fputc", <<CurrentFrame(t).symbol[1][idx[t]]>>)
          /\ idx' = [idx EXCEPT ![t] = @ + 1]
     ELSE /\ Goto(t, "frame_symbol", "put_ip_label")
          /\ UNCHANGED <<idx, stream>>
  /\ UNCHANGED <<thread_id_hash, log_buffer, depth, visited, frames, stderr_lock>>

PutIpLabel(t) == Fputs(t, "put_ip_label", "\t (ip: ", "frame_ip")

\* field.as_ref().match(print_ptr, print_none)
PointerText(field) == IF field = None THEN UnresolvedMarker ELSE field[1]

\* the helper that writes the field; the bodies of print_ptr and print_none
\* are not part of default.h
PointerPrinter(field) == IF field = None THEN "print_none" ELSE "print_ptr"

PutFrameIp(t) ==
  /\ Goto(t, "frame_ip", "put_sp_label")
  /\ Put(t, PointerPrinter(CurrentFrame(t).ip), <<PointerText(CurrentFrame(t).ip)>>)
  /\ UNCHANGED <<locals, stderr_lock>>

PutSpLabel(t) == Fputs(t, "put_sp_label", ", sp: ", "frame_sp")

PutFrameSp(t) ==
  /\ Goto(t, "frame_sp", "put_frame_end")
  /\ Put(t, PointerPrinter(CurrentFrame(t).sp), <<PointerText(CurrentFrame(t).sp)>>)
  /\ UNCHANGED <<locals, stderr_lock>>

\* return false;
VisitorResult == FALSE

\* a capturer that ignores what the visitor returns
AfterVisitIgnores(result) == "trace"

\* the capturer after a visitor invocation: true continues the walk with the
\* next frame, false halts it
AfterVisit(result) == IF result THEN "trace" ELSE "trace_return"

\* std::fputs(")\n", stderr); and the visitor returns to the capturer
PutFrameEnd(t) == Fputs(t, "put_frame_end", ")\n", AfterVisit(VisitorResult))

\* what trace returns: the frames delivered, or 0 or a negative sentinel
TraceResults(t) == IF depth[t] > 0 THEN {depth[t]} ELSE {0, -1}

\* int frames = backtrace::trace(...);
TraceReturn(t) ==
  /\ resolved[t] = "panic_default"
  /\ Goto(t, "trace_return", "check_frames")
  /\ \E n \in TraceResults(t) : frames' = [frames EXCEPT ![t] = n]
  /\ UNCHANGED <<thread_id_hash, log_buffer, idx, depth, visited, stderr_lock, stream>>

\* a direct caller calls backtrace::trace with a visitor that returns false on
\* its k-th invocation
CallTrace(t, st, k) ==
  /\ ~terminated
  /\ pc[t] = "run"
  /\ stack' = [stack EXCEPT ![t] = st]
  /\ cancel_at' = [cancel_at EXCEPT ![t] = k]
  /\ pc' = [pc EXCEPT ![t] = "trace"]
  /\ UNCHANGED <<build, registry, args, resolved, invoked, locals, stderr_lock, stream,
                 terminated>>

\* the counting visitor returns to the capturer: false on invocation cancel_at
Visit(t) ==
  /\ pc[t] = "visit"
  /\ Goto(t, "visit", AfterVisit(Len(visited[t]) # cancel_at[t]))
  /\ UNCHANGED <<locals, stderr_lock, stream>>

\* trace returns to the direct caller
TraceEnd(t) ==
  /\ resolved[t] # "panic_default"
  /\ Goto(t, "trace_return", "traced")
  /\ \E n \in TraceResults(t) : frames' = [frames EXCEPT ![t] = n]
  /\ UNCHANGED <<thread_id_hash, log_buffer, idx, depth, visited, stderr_lock, stream>>

WarningLine ==
  "WARNING >> The stack frames couldn't be identified, debug information was possibly stripped, unavailable, or elided by compiler\n"

\* a handler that panics when the stack frames could not be identified
CheckFramesPanics(t) ==
  /\ pc[t] = "check_frames"
  /\ Goto(t, "check_frames", IF frames[t] <= 0 THEN "begin_panic" ELSE "put_newline")
  /\ UNCHANGED <<locals, stderr_lock, stream>>

\* a handler that returns right after the warning, without the unlock
CheckFramesReturns(t) ==
  /\ pc[t] = "check_frames"
  /\ Goto(t, "check_frames", IF frames[t] <= 0 THEN "hook_returned" ELSE "put_newline")
  /\ IF frames[t] <= 0 THEN Put(t, "fputs", <<WarningLine>>) ELSE UNCHANGED stream
  /\ UNCHANGED <<locals, stderr_lock>>

\* a check that takes only the negative sentinel for a failure
CheckFramesNegative(t) ==
  /\ Goto(t, "check_frames", "put_newline")
  /\ IF frames[t] < 0 THEN Put(t, "fputs", <<WarningLine>>) ELSE UNCHANGED stream
  /\ UNCHANGED <<locals, stderr_lock>>

\* if (frames <= 0) std::fputs(WARNING.., stderr);
CheckFrames(t) ==
  /\ Goto(t, "check_frames", "put_newline")
  /\ IF frames[t] <= 0 THEN Put(t, "fputs", <<WarningLine>>) ELSE UNCHANGED stream
  /\ UNCHANGED <<locals, stderr_lock>>

PutNewline(t) == Fputs(t, "put_newline", "\n", "unlock")

(***************************************************************************)
(* Specifications.                                                         *)
(***************************************************************************)
Header(t) ==
  \/ ThreadIdHash(t) \/ Lock(t) \/ PutThread(t) \/ FormatHash(t) \/ PutHash(t)
  \/ PutPanicked(t) \/ PutInfo(t) \/ PutColon(t) \/ PutSpace(t) \/ PutPayload(t)
  \/ PutQuote(t) \/ PutAtFunction(t) \/ PutFunctionName(t) \/ PutBracket(t)
  \/ PutFileName(t) \/ PutLineColon(t) \/ Line(t) \/ PutLine(t) \/ PutColumnColon(t)
  \/ Column(t) \/ PutColumn(t) \/ PutEnd(t) \/ Flush(t) \/ Unlock(t)

Backtrace(t) ==
  \/ PutBacktrace(t) \/ Trace(t) \/ PutFrameIndex(t) \/ PutFrameSymbol(t)
  \/ PutIpLabel(t) \/ PutFrameIp(t) \/ PutSpLabel(t) \/ PutFrameSp(t)
  \/ PutFrameEnd(t) \/ TraceReturn(t) \/ CheckFrames(t) \/ PutNewline(t)

\* any number of threads panic under the default handler, with or without backtrace
SpecBuilds ==
  {b \in Builds : b.int_bits = 32 /\ ~b.STX_OVERRIDE_PANIC_HANDLER /\ b.panic_backtrace_option}

Next ==
  \/ \E t \in Threads, in \in PanicInputs, st \in Stacks : Panic(t, in, st)
  \/ \E t \in Threads : BeginPanic(t) \/ EndPanic(t) \/ Header(t) \/ Backtrace(t)

Spec == InitWith(SpecBuilds) /\ [][Next]_vars

\* one thread calls the capturer with a counting visitor, on every stack
CaptureStacks == SeqsUpTo(AllFrames, MaxFrames)

CaptureNext ==
  \/ \E st \in CaptureStacks, k \in 1..(MaxFrames + 1) : CallTrace(1, st, k)
  \/ Trace(1) \/ Visit(1) \/ TraceEnd(1)

CaptureSpec == InitWith({b \in SpecBuilds : b.STX_ENABLE_BACKTRACE}) /\ [][CaptureNext]_vars

\* two threads panic in a build with backtraces: the first with a payload, on
\* a stack of resolved frames, the second without, on a stack of frames of any
\* one kind
ResolvedStacks == {[i \in 1..n |-> ResolvedFrame] : n \in 0..MaxFrames}
FrameStacks == {[i \in 1..n |-> f] : n \in 0..MaxFrames, f \in AllFrames}

FrameInputs(t) == {in \in PanicInputs : (in.payload = <<>>) <=> (t = 2)}

FrameNext ==
  \/ \E in \in FrameInputs(1), st \in ResolvedStacks : Panic(1, in, st)
  \/ \E in \in FrameInputs(2), st \in FrameStacks : Panic(2, in, st)
  \/ \E t \in 1..2 : BeginPanic(t) \/ EndPanic(t) \/ Header(t) \/ Backtrace(t)

FrameSpec == InitWith({b \in SpecBuilds : b.STX_ENABLE_BACKTRACE}) /\ [][FrameNext]_vars

\* two threads panic under the default handler, and a thread that can take a
\* step of the handler eventually takes one
PathNext ==
  \/ \E t \in 1..2, in \in PanicInputs, st \in Stacks : Panic(t, in, st)
  \/ \E t \in 1..2 : BeginPanic(t) \/ EndPanic(t) \/ Header(t) \/ Backtrace(t)

PathSpec ==
  /\ InitWith(SpecBuilds)
  /\ [][PathNext]_vars
  /\ \A t \in 1..2 : WF_vars(Header(t) \/ Backtrace(t))

\* one thread panics under the default handler in every build
BuildNext ==
  \/ \E in \in PanicInputs, st \in Stacks : Panic(1, in, st)
  \/ BeginPanic(1) \/ EndPanic(1)
  \/ Header(1) \/ Backtrace(1)

BuildSpec == InitWith(Builds) /\ [][BuildNext]_vars

\* any number of threads panic under any hook, installed at any time; no backtrace
HookInputs == {[info |-> <<"x">>, payload |-> <<"'">>,
                location |-> SourceLocation(<<0, 7>>, Zero32)]}

HookNext ==
  \/ \E h \in PanicHooks : Install(h)
  \/ \E t \in Threads, in \in HookInputs : Panic(t, in, <<>>)
  \/ \E t \in Threads :
       \/ BeginPanic(t) \/ EndPanic(t)
       \/ PanicHalt(t) \/ PanicAbort(t) \/ PanicHandler(t)
       \/ Header(t)

HookSpec == InitWith({b \in FormatBuilds : b.int_bits = 32}) /\ [][HookNext]_vars

\* one thread panics under the default handler, with every input; no backtrace
FormatNext ==
  \/ \E in \in FormatInputs : Panic(1, in, <<>>)
  \/ BeginPanic(1) \/ EndPanic(1)
  \/ Header(1)

FormatSpec == InitWith(FormatBuilds) /\ [][FormatNext]_vars

(***************************************************************************)
(* Properties.                                                             *)
(***************************************************************************)
\* what thread t has written to the sink, in order
BlockOf(t) ==
  LET own == SelectSeq(sink, LAMBDA e : e.th = t)
  IN  [i \in 1..Len(own) |-> own[i].ch]

\* the position of the first unit u of block b
IndexOf(b, u) == CHOOSE i \in 1..Len(b) : b[i] = u /\ \A j \in 1..(i - 1) : b[j] # u

\* the last unit panic_default writes in this build
LastUnit == IF STX_ENABLE_PANIC_BACKTRACE(build) THEN "\n" ELSE "]\n"

BlockStarted(t) == BlockOf(t) # <<>>
BlockComplete(t) == BlockStarted(t) /\ BlockOf(t)[Len(BlockOf(t))] = LastUnit

\* panic_default has run to its end for thread t
Finished(t) == resolved[t] = "panic_default" /\ pc[t] \in {"hook_returned", "aborted"}

\* C1: the units one thread wrote to the sink form a single run: no unit of
\* another thread lies between two units of the same thread.
C1_NoInterleaving ==
  \A t \in Threads :
    Cardinality({i \in 1..Len(sink) :
                   sink[i].th = t /\ (i = 1 \/ sink[i - 1].th # t)}) <= 1

\* C1 witness: two threads have written their complete blocks
C1_Witness ==
  \E t1, t2 \in Threads : t1 # t2 /\ BlockComplete(t1) /\ BlockComplete(t2)

\* C2: panic_default never returns to its caller (it aborts the program itself).
C2_HandlerAborts ==
  \A t \in Threads : resolved[t] = "panic_default" => pc[t] # "hook_returned"

\* C3: a thread that has called panic never executes its ordinary control flow
\* again, and when a hook has returned, the entry point's next step terminates
\* the process.
C3_NeverReturns ==
  [][\A t \in Threads :
       /\ pc[t] # "run" => pc'[t] # "run"
       /\ (pc[t] = "hook_returned" /\ pc'[t] # "hook_returned") => terminated']_vars

\* C3 witness: the user-defined handler returned and the process was terminated
C3_Witness ==
  \E t \in Threads : resolved[t] = "panic_handler" /\ pc[t] = "aborted" /\ terminated

\* C4: the entry point's step calls the hook that is active at that moment, on the
\* calling thread, with the arguments of the panic call; it has called no hook
\* before, calls none again, and terminates nothing before the call.
C4_InvokesCurrentHook ==
  /\ [](\A t \in Threads :
          IF pc[t] \in {"run", "begin_panic"} THEN invoked[t] = <<>>
          ELSE invoked[t] = <<[hook |-> resolved[t], args |-> args[t]]>>)
  /\ [][\A t \in Threads :
          (pc[t] = "begin_panic" /\ pc'[t] # "begin_panic")
            => /\ resolved'[t] = hook
               /\ invoked'[t] = <<[hook |-> hook, args |-> args[t]]>>
               /\ pc'[t] = HookEntry(hook)
               /\ ~terminated']_vars

\* C4 witness: panic_abort was installed, resolved and called, and it terminated
C4_Witness ==
  \E t \in Threads :
    /\ invoked[t] = <<[hook |-> "panic_abort", args |-> args[t]]>>
    /\ pc[t] = "aborted"

\* C5: current() is always one panic hook; it is the default handler while no
\* install has happened, the installed hook right after install, and the same
\* hook from then on.
C5_CurrentHook ==
  /\ [](/\ Current \in PanicHooks
        /\ last_install.status = "none" => Current = "panic_default")
  /\ [][/\ (~locked /\ locked') => Current' = last_install'.hook
        /\ locked => Current' = Current]_vars

\* C5 witness: a thread's panic resolved the installed hook
C5_Witness ==
  \E t \in Threads : locked /\ Current = "panic_halt" /\ resolved[t] = "panic_halt"

\* C6: the first install succeeds and locks the registry; every later install
\* signals a configuration error and leaves the active hook unchanged.
C6_InstallOnce ==
  [][registry' # registry =>
       IF ~locked
       THEN /\ locked'
            /\ last_install'.status = "ok"
            /\ hook' = last_install'.hook
       ELSE /\ locked'
            /\ last_install'.status = "configuration_error"
            /\ hook' = hook]_vars

\* C6 witness: an install of another hook was refused
C6_Witness ==
  /\ last_install.status = "configuration_error"
  /\ last_install.hook # hook

\* the units between "' panicked with: '" and " at function: '"
MessageSection(b) ==
  SubSeq(b, IndexOf(b, "' panicked with: '") + 1, IndexOf(b, " at function: '") - 1)

\* C7: the block holds the message verbatim after "panicked with: '", then, only
\* for a non-empty payload, ": " and the payload verbatim, then the closing quote.
C7_MessageAndPayload ==
  \A t \in Threads :
    Finished(t) =>
      MessageSection(BlockOf(t)) =
        args[t].info
          \o (IF args[t].payload # <<>> THEN <<":", " ">> \o args[t].payload ELSE <<>>)
          \o <<"'">>

\* C7 witnesses: a block with a message and a payload of full length, and one without payload
C7_Witness ==
  /\ Finished(1)
  /\ Len(args[1].info) = MaxLen
  /\ Len(args[1].payload) = MaxLen

\* the units of "<line>:<column>" in a block without backtrace section
LocationFields(b) == SubSeq(b, IndexOf(b, "' [") + 3, IndexOf(b, "]\n") - 1)
LineField(b) == SubSeq(LocationFields(b), 1, IndexOf(LocationFields(b), ":") - 1)
ColumnField(b) ==
  SubSeq(LocationFields(b), IndexOf(LocationFields(b), ":") + 1, Len(LocationFields(b)))

\* C8: the line field is "unknown" exactly when the line is 0 and the column
\* field is "unknown" exactly when the column is 0.
C8_UnknownFields ==
  \A t \in Threads :
    Finished(t) =>
      /\ LineField(BlockOf(t)) = <<"unknown">> <=> IsZero32(args[t].location.line)
      /\ ColumnField(BlockOf(t)) = <<"unknown">> <=> IsZero32(args[t].location.column)

\* C8 witness: a block for line 0 and a non-zero column
C8_Witness ==
  /\ Finished(1)
  /\ IsZero32(args[1].location.line)
  /\ ~IsZero32(args[1].location.column)

\* C9: a non-zero line or column is rendered as the decimal representation of
\* its unsigned value.
C9_UnsignedDecimal ==
  \A t \in Threads :
    Finished(t) =>
      /\ ~IsZero32(args[t].location.line)
           => LineField(BlockOf(t)) = UnsignedDigits(args[t].location.line)
      /\ ~IsZero32(args[t].location.column)
           => ColumnField(BlockOf(t)) = UnsignedDigits(args[t].location.column)

\* C10 as stated: when the process has terminated, every block that was started
\* is complete.
C10_NoPartialBlock ==
  terminated => \A t \in Threads : BlockStarted(t) => BlockComplete(t)

\* C10 amended: when the process has terminated, a block that was started and
\* is not complete is the last one in the sink.
C10_OnlyLastBlockPartial ==
  terminated =>
    \A t \in Threads :
      (BlockStarted(t) /\ ~BlockComplete(t)) => sink[Len(sink)].th = t

\* C10 witness: the process terminated with a complete block followed by a partial one
C10_Witness ==
  /\ terminated
  /\ \E t1, t2 \in Threads :
       BlockComplete(t1) /\ BlockStarted(t2) /\ ~BlockComplete(t2)

\* the visitor invocations a walk of stack st makes when it ends after n of them
Visits(st, n) == [i \in 1..n |-> [index |-> i - 1, frame |-> st[i]]]

\* C11: when the visitor returns false on its k-th invocation and the stack has
\* at least k frames, the capturer has invoked the visitor exactly k times when
\* it returns, on the k innermost frames in order, and has scanned no frame
\* beyond the k-th; a visitor that never returns false sees every frame.
C11_CancellationHonoured ==
  \A t \in Threads :
    pc[t] = "traced" =>
      IF cancel_at[t] <= Len(stack[t])
      THEN visited[t] = Visits(stack[t], cancel_at[t]) /\ depth[t] = cancel_at[t]
      ELSE visited[t] = Visits(stack[t], Len(stack[t]))

\* a walk cancelled at the first of two different frames
C11_Witness ==
  \E t \in Threads :
    /\ pc[t] = "traced"
    /\ cancel_at[t] = 1
    /\ Len(stack[t]) = MaxFrames
    /\ stack[t][1] # stack[t][2]
    /\ Len(visited[t]) = 1

\* block b contains the unit u
Has(b, u) == \E i \in 1..Len(b) : b[i] = u

\* C12: in a build with backtraces, when panic_default has run to its end the
\* warning line is in its block exactly when trace returned a frame count of
\* zero or less, and in that case the block has no frame entry.
C12_WarningIffNoFrames ==
  \A t \in Threads :
    (Finished(t) /\ STX_ENABLE_PANIC_BACKTRACE(build)) =>
      /\ (frames[t] <= 0) <=> Has(BlockOf(t), WarningLine)
      /\ (frames[t] <= 0) => ~Has(BlockOf(t), "#")

\* the handler ran to its end after trace returned zero, and warned
C12_Witness ==
  \E t \in Threads :
    /\ Finished(t)
    /\ STX_ENABLE_PANIC_BACKTRACE(build)
    /\ frames[t] = 0
    /\ Has(BlockOf(t), WarningLine)

\* the diagnostic line of thread t: its block up to the end of the location
HeaderComplete(t) == Has(BlockOf(t), "]\n")
HeaderOf(t) == SubSeq(BlockOf(t), 1, IndexOf(BlockOf(t), "]\n"))

\* the digits of the thread hash in a diagnostic line, and the line without them
HashField(b) == SubSeq(b, 2, IndexOf(b, "' panicked with: '") - 1)
WithoutHash(b) == SubSeq(b, 1, 1) \o SubSeq(b, IndexOf(b, "' panicked with: '"), Len(b))

SinkText == [i \in 1..Len(sink) |-> sink[i].ch]

\* the characters a line or column field is made of, and such a field
NumberChars == {DigitChar(d) : d \in 0..9} \cup {"-"}
IsLocationField(f) == f = <<"unknown">> \/ (f # <<>> /\ \A i \in 1..Len(f) : f[i] \in NumberChars)

\* text is "<line>:<column>]\n"
IsLocationTail(text) ==
  /\ Len(text) >= 4
  /\ text[Len(text)] = "]\n"
  /\ \E k \in 2..(Len(text) - 2) :
        /\ text[k] = ":"
        /\ IsLocationField(SubSeq(text, 1, k - 1))
        /\ IsLocationField(SubSeq(text, k + 1, Len(text) - 1))

\* the diagnostic line up to the line field, for a panic without payload
LineStart(t) ==
  <<"\nthread with hash: '">> \o NatDigits(kThreadIdHash(t)) \o <<"' panicked with: '">>
    \o args[t].info
    \o <<"'", " at function: '", args[t].location.function_name, "' [",
         args[t].location.file_name, ":">>

\* C14: in a build without backtraces, when one thread has panicked with an
\* empty payload and its handler has run to its end, the sink holds the
\* diagnostic line (thread hash, message, function, file, line, column) and
\* nothing else: the closing quote follows the message directly and nothing
\* follows the end of the location.
C14_OneLineOnly ==
  \A t \in Threads :
    ( /\ Finished(t)
      /\ ~STX_ENABLE_PANIC_BACKTRACE(build)
      /\ args[t].payload = <<>>
      /\ \A u \in Threads \ {t} : pc[u] = "run" ) =>
      /\ Len(SinkText) > Len(LineStart(t))
      /\ SubSeq(SinkText, 1, Len(LineStart(t))) = LineStart(t)
      /\ IsLocationTail(SubSeq(SinkText, Len(LineStart(t)) + 1, Len(SinkText)))

\* one panic without payload has been reported in a build without backtraces
C14_Witness ==
  \E t \in Threads :
    /\ Finished(t)
    /\ ~STX_ENABLE_PANIC_BACKTRACE(build)
    /\ args[t].payload = <<>>
    /\ args[t].info # <<>>
    /\ \A u \in Threads \ {t} : pc[u] = "run"

\* the primitives the documentation names that write to stderr (snprintf writes
\* to log_buffer), and the helpers whose bodies are not part of default.h
DocumentedPrimitives == {"fputs", "fputc"}
FieldHelpers == {"print_none", "print_ptr"}

\* C15: every unit in the sink was written by fputs or fputc (through
\* snprintf's buffer where formatted), in every build.
C15_OnlyDocumentedPrimitives ==
  \A i \in 1..Len(sink) : sink[i].fn \in DocumentedPrimitives \cup FieldHelpers

\* thread t is between stderr_lock.lock() and stderr_lock.unlock()
InCriticalSection(t) ==
  /\ resolved[t] = "panic_default"
  /\ pc[t] \notin {"run", "begin_panic", "thread_id_hash", "lock", "hook_returned", "aborted"}

\* the threads that have called panic_default and not yet acquired the lock
BeforeLock(t) == pc[t] \in {"thread_id_hash", "lock"}

\* C16: at most one thread is inside the critical section and it is the holder
\* of stderr_lock; a thread that has not yet acquired the lock has written
\* nothing; every step that writes to the sink or flushes it is taken by the
\* thread that holds the lock, before and after the step.
C16_MutualExclusion ==
  /\ [](\A t \in Threads :
          /\ InCriticalSection(t) => stderr_lock = t
          /\ BeforeLock(t) => BlockOf(t) = <<>>)
  /\ [][ (sink' # sink \/ flushed' # flushed) =>
            /\ stderr_lock \in Threads
            /\ stderr_lock' = stderr_lock
            /\ Len(sink') >= Len(sink)
            /\ \A i \in (Len(sink) + 1)..Len(sink') : sink'[i].th = stderr_lock
            /\ flushed' # flushed => pc[stderr_lock] = "flush" ]_vars

\* one thread writes its backtrace section under the lock while another waits for it
C16_Witness ==
  \E t, u \in Threads :
    /\ stderr_lock = t
    /\ pc[t] = "frame_symbol"
    /\ pc[u] = "lock"

\* the diagnostic line up to the line field: hash, message, payload when there
\* is one, function name, file name
FieldsBeforeLine(t) ==
  <<"\nthread with hash: '">> \o NatDigits(kThreadIdHash(t)) \o <<"' panicked with: '">>
    \o args[t].info
    \o (IF args[t].payload # <<>> THEN <<":", " ">> \o args[t].payload ELSE <<>>)
    \o <<"'", " at function: '", args[t].location.function_name, "' [",
         args[t].location.file_name, ":">>

\* field f renders the value v: "unknown" for 0, the digits of a small value
Renders(f, v) ==
  /\ IsLocationField(f)
  /\ f = <<"unknown">> <=> IsZero32(v)
  /\ (v[1] = 0 /\ v[2] # 0) => f = NatDigits(v[2])

\* text is "<line>:<column>]\n" for the location loc, the line first
IsLineThenColumn(text, loc) ==
  /\ Len(text) >= 4
  /\ text[Len(text)] = "]\n"
  /\ \E k \in 2..(Len(text) - 2) :
        /\ text[k] = ":"
        /\ Renders(SubSeq(text, 1, k - 1), loc.line)
        /\ Renders(SubSeq(text, k + 1, Len(text) - 1), loc.column)

\* C17: the diagnostic line holds its fields once each and in the order thread
\* hash, message, payload (only when not empty), function name, file name,
\* line, column; and a thread acquires the lock only with its thread hash
\* already computed.
C17_FieldOrder ==
  /\ [](\A t \in Threads :
          HeaderComplete(t) =>
            LET line == HeaderOf(t)
                n == Len(FieldsBeforeLine(t))
            IN  /\ Len(line) > n
                /\ SubSeq(line, 1, n) = FieldsBeforeLine(t)
                /\ IsLineThenColumn(SubSeq(line, n + 1, Len(line)), args[t].location))
  /\ [][\A t \in Threads :
          (stderr_lock # t /\ stderr_lock' = t) =>
            (thread_id_hash[t] = kThreadIdHash(t) /\ thread_id_hash'[t] = thread_id_hash[t])]_vars

\* a line with message, payload, a known line and an unknown column
C17_Witness ==
  \E t \in Threads :
    /\ HeaderComplete(t)
    /\ args[t].info # <<>>
    /\ args[t].payload # <<>>
    /\ ~IsZero32(args[t].location.line)
    /\ IsZero32(args[t].location.column)

\* unit i of the sink belongs to the diagnostic line of thread t: t wrote it,
\* and wrote no "]\n" before it
InHeader(t, i) ==
  /\ sink[i].th = t
  /\ \A j \in 1..(i - 1) : ~(sink[j].th = t /\ sink[j].ch = "]\n")

\* C18 as stated: when panic_default is about to release the lock, every unit
\* it has written, the backtrace section included, has been flushed.
C18_AllFlushedAtUnlock ==
  \A t \in Threads :
    pc[t] = "unlock" => \A i \in 1..Len(sink) : sink[i].th = t => i <= flushed

\* C18: when panic_default is about to release the lock, every unit of its
\* diagnostic line has been flushed, and every unit of its backtrace section,
\* written after the only flush, has not.
C18_HeaderFlushedAtUnlock ==
  \A t \in Threads :
    pc[t] = "unlock" =>
      \A i \in 1..Len(sink) : sink[i].th = t => (InHeader(t, i) <=> i <= flushed)

\* the handler is about to release the lock after a backtrace section with a frame line
C18_Witness ==
  \E t \in Threads :
    /\ pc[t] = "unlock"
    /\ STX_ENABLE_PANIC_BACKTRACE(build)
    /\ Has(BlockOf(t), "#")
    /\ flushed < Len(sink)

\* how many times the unit u occurs in block b
Count(b, u) == Cardinality({i \in 1..Len(b) : b[i] = u})

\* C19: in a build with backtraces, when panic_default has run to its end on a
\* stack of d > 0 frames, its visitor has been invoked on each of the d frames,
\* innermost first with indices 0 to d - 1, and its block has d frame lines.
C19_EveryFrameLine ==
  \A t \in Threads :
    (Finished(t) /\ STX_ENABLE_PANIC_BACKTRACE(build) /\ Len(stack[t]) > 0) =>
      /\ visited[t] = Visits(stack[t], Len(stack[t]))
      /\ Count(BlockOf(t), "#") = Len(stack[t])
      /\ Count(BlockOf(t), ")\n") = Len(stack[t])

\* what a frame line shows for a field: its value when present, the marker when absent
SymbolShown(sym) == IF sym = None THEN <<UnresolvedMarker>> ELSE sym[1]
PointerShown(ptr) == IF ptr = None THEN UnresolvedMarker ELSE ptr[1]

\* the frame line of one visitor invocation
FrameLine(v) ==
  <<"#">> \o NatDigits(v.index) \o <<"\t\t">> \o SymbolShown(v.frame.symbol)
    \o <<"\t (ip: ", PointerShown(v.frame.ip), ", sp: ", PointerShown(v.frame.sp), ")\n">>

RECURSIVE FrameLines(_)
FrameLines(vs) ==
  IF vs = <<>> THEN <<>> ELSE FrameLines(SubSeq(vs, 1, Len(vs) - 1)) \o FrameLine(vs[Len(vs)])

\* what thread t has written after its diagnostic line
BacktraceSection(t) == SubSeq(BlockOf(t), Len(HeaderOf(t)) + 1, Len(BlockOf(t)))

\* C20: the backtrace section holds one complete frame line for every frame
\* the visitor was given, and in it the symbol, the ip and the sp each show
\* their value when present and the unresolved marker when absent, whatever
\* the other two are; and a stack whose frames have absent fields is walked as
\* far as a stack of resolved frames of the same depth.
C20_FieldsIndependent ==
  /\ \A t \in Threads :
       Finished(t) =>
         BacktraceSection(t) =
           <<"\nBacktrace:\nip: Instruction Pointer,  sp: Stack Pointer\n\n">>
             \o FrameLines(visited[t])
             \o (IF frames[t] <= 0 THEN <<WarningLine>> ELSE <<>>)
             \o <<"\n">>
  /\ \A t1, t2 \in Threads :
       (Finished(t1) /\ Finished(t2) /\ Len(stack[t1]) = Len(stack[t2])) =>
         Len(visited[t1]) = Len(visited[t2])

\* a frame with an absent symbol, a present ip and an absent sp has its line,
\* next to a resolved stack of the same depth
C20_Witness ==
  \E t1, t2 \in Threads :
    /\ Finished(t1) /\ Finished(t2)
    /\ Len(stack[t1]) = MaxFrames /\ Len(stack[t2]) = MaxFrames
    /\ stack[t1][1] = ResolvedFrame
    /\ stack[t2][1] = Frame(None, Some("0x1"), None)
    /\ Has(BlockOf(t2), "0x1")

\* the units in the symbol position of the first frame line of block b
SymbolPosition(b) == SubSeq(b, IndexOf(b, "\t\t") + 1, IndexOf(b, "\t (ip: ") - 1)

\* panic_default has run to its end for t and has written a frame line
HasFrameLine(t) == Finished(t) /\ visited[t] # <<>> /\ Has(BlockOf(t), "\t (ip: ")

\* C21 as stated: a frame whose symbol is present but empty has the unresolved
\* marker in the symbol position, like a frame whose symbol is absent.
C21_EmptySymbolAsAbsent ==
  \A t \in Threads :
    (HasFrameLine(t) /\ visited[t][1].frame.symbol = Some(<<>>)) =>
      SymbolPosition(BlockOf(t)) = <<UnresolvedMarker>>

\* C21: a frame whose symbol is present but empty has nothing in the symbol
\* position; the unresolved marker is there only for an absent symbol.
C21_EmptySymbolPrintsNothing ==
  \A t \in Threads :
    HasFrameLine(t) =>
      /\ visited[t][1].frame.symbol = Some(<<>>) => SymbolPosition(BlockOf(t)) = <<>>
      /\ visited[t][1].frame.symbol = None <=> SymbolPosition(BlockOf(t)) = <<UnresolvedMarker>>

\* the frame line of a frame with an empty symbol has been written
C21_Witness ==
  \E t \in Threads :
    /\ HasFrameLine(t)
    /\ visited[t][1].frame.symbol = Some(<<>>)
    /\ SymbolPosition(BlockOf(t)) = <<>>

\* the program points of the backtrace section
BacktracePoints ==
  {"put_backtrace", "trace", "frame_index", "frame_symbol", "put_ip_label", "frame_ip",
   "put_sp_label", "frame_sp", "put_frame_end", "trace_return", "check_frames",
   "put_newline"}

\* the stage of panic_default a program point belongs to: 0 before the lock,
\* 1 the header, 2 the flush, 3 the backtrace section, 4 the unlock, 5 after it
Stage(p) ==
  CASE p \in {"run", "begin_panic", "thread_id_hash", "lock"} -> 0
    [] p = "flush" -> 2
    [] p \in BacktracePoints -> 3
    [] p = "unlock" -> 4
    [] p \in {"hook_returned", "aborted"} -> 5
    [] OTHER -> 1

\* the stages that can follow stage n in this build
NextStages(n) ==
  IF n = 2 THEN (IF STX_ENABLE_PANIC_BACKTRACE(build) THEN {2, 3} ELSE {2, 4})
  ELSE IF n = 5 THEN {5} ELSE {n, n + 1}

\* C22: a thread acquires stderr_lock exactly by entering the header from the
\* lock call and releases it exactly by leaving the unlock call, itself; in
\* between it goes through header, flush, backtrace section (when compiled
\* in) and unlock in this order, never back; a thread that has returned from
\* the handler, or has terminated the process, does not hold the lock; and
\* every acquisition is followed by the release unless the process is
\* terminated in between.
C22_LockPairing ==
  /\ [](\A t \in Threads : Stage(pc[t]) \in {0, 5} => stderr_lock # t)
  /\ [][\A t \in Threads :
          /\ Stage(pc'[t]) \in NextStages(Stage(pc[t]))
          /\ (stderr_lock # t /\ stderr_lock' = t) <=> (Stage(pc[t]) = 0 /\ Stage(pc'[t]) = 1)
          /\ (stderr_lock = t /\ stderr_lock' # t) <=> (Stage(pc[t]) = 4 /\ Stage(pc'[t]) = 5)
          /\ (terminated' /\ ~terminated /\ pc'[t] # pc[t]) => stderr_lock # t]_vars
  /\ \A t \in Threads : (stderr_lock = t) ~> (stderr_lock # t \/ terminated)

\* a thread has returned from the handler after a payload, an unknown line and
\* a backtrace section without frames, and the lock is free
C22_Witness ==
  \E t \in Threads :
    /\ pc[t] = "hook_returned"
    /\ args[t].payload # <<>>
    /\ Has(BlockOf(t), WarningLine)
    /\ stderr_lock = NoThread

\* thread t's handler has returned and the process has not yet been terminated
ReturnedBeforeTermination(t) == pc[t] = "hook_returned" /\ ~terminated

\* C23: after a thread's handler has returned and before the process has
\* terminated, a thread waiting in the lock call can acquire the lock as soon
\* as no other thread is inside the critical section, and a thread inside the
\* critical section can take its next step.
C23_OthersCanStillLog ==
  \A t \in Threads :
    ReturnedBeforeTermination(t) =>
      \A u \in Threads \ {t} :
        /\ (pc[u] = "lock" /\ \A w \in Threads \ {t} : ~InCriticalSection(w))
             => ENABLED Lock(u)
        /\ InCriticalSection(u) => ENABLED (Header(u) \/ Backtrace(u))

\* the second thread has written after the whole block of the first, whose
\* handler has returned, and the process has not terminated
C23_Witness ==
  \E t, u \in Threads :
    /\ t # u
    /\ ReturnedBeforeTermination(t)
    /\ BlockComplete(t)
    /\ sink[1].th = t
    /\ sink[Len(sink)].th = u
    /\ stderr_lock = u

\* thread t is inside panic_default
InHandler(t) == BeforeLock(t) \/ (resolved[t] = "panic_default" /\ Stage(pc[t]) \in 1..4)

\* C24: a thread's entry point invokes the hook at most once; no step taken
\* inside panic_default leads to the entry point again; a thread that calls
\* lock does not hold the lock already, and in a running process it can
\* acquire the lock once no other thread is inside the critical section.
C24_NoNestedPanic ==
  /\ [](\A t \in Threads :
          /\ Len(invoked[t]) <= 1
          /\ pc[t] = "lock" => stderr_lock # t
          /\ (pc[t] = "lock" /\ ~terminated /\ \A u \in Threads : ~InCriticalSection(u))
               => ENABLED Lock(t))
  /\ [][\A t \in Threads :
          InHandler(t) => (pc'[t] # "begin_panic" /\ invoked'[t] = invoked[t])]_vars

\* the handler went on to the final newline after the stack walk failed and
\* the line was unknown, with one hook invocation made
C24_Witness ==
  \E t \in Threads :
    /\ pc[t] = "put_newline"
    /\ frames[t] < 0
    /\ IsZero32(args[t].location.line)
    /\ Len(invoked[t]) = 1

\* the build has the backtrace library and does not override the panic handler
BacktraceAllowed(b) == b.STX_ENABLE_BACKTRACE /\ ~b.STX_OVERRIDE_PANIC_HANDLER

\* thread t has written a part of a backtrace section, or is about to
InBacktraceSection(t) ==
  \/ pc[t] \in BacktracePoints
  \/ Has(BlockOf(t), "\nBacktrace:\nip: Instruction Pointer,  sp: Stack Pointer\n\n")
  \/ Has(BlockOf(t), "#")
  \/ Has(BlockOf(t), WarningLine)

\* C25: the panic-backtrace switch is on only in a build with the backtrace
\* library and without an overridden panic handler; in every other build the
\* handler never enters the backtrace section and writes nothing of it; in a
\* build where the switch is on, the handler that has run to its end has
\* written the section.
C25_BacktraceOnlyWhenAllowed ==
  /\ STX_ENABLE_PANIC_BACKTRACE(build) => BacktraceAllowed(build)
  /\ \A t \in Threads :
       /\ ~BacktraceAllowed(build) => ~InBacktraceSection(t)
       /\ (Finished(t) /\ BacktraceAllowed(build) /\ build.panic_backtrace_option)
            => InBacktraceSection(t)

\* the handler has run to its end without a backtrace section in a build that
\* asks for panic backtraces and has the library, but overrides the handler
C25_Witness ==
  \E t \in Threads :
    /\ Finished(t)
    /\ build.STX_ENABLE_BACKTRACE
    /\ build.STX_OVERRIDE_PANIC_HANDLER
    /\ build.panic_backtrace_option
    /\ ~InBacktraceSection(t)

====
